---- MODULE Spec2Model ----
(***************************************************************************)
(* Bulk PPTX to PDF converter: the converter object (backend selection,   *)
(* convert_file, convert_batch), the command line front-end (main) and    *)
(* the conversion worker of the desktop front-end (run_conversion).       *)
(*                                                                         *)
(* The filesystem, the external LibreOffice process and the PowerPoint    *)
(* automation bridge are the environment: what they answer to one call    *)
(* is an input drawn from a small set at the step that makes the call.    *)
(***************************************************************************)
EXTENDS Integers, Sequences, FiniteSets, TLC

\* Longest list of inputs given on the command line or by a dialog.
MaxInputs == 2

None == "None"
\* An attribute that __init__ never assigned (reading it raises AttributeError).
Unset == "<unset>"

----------------------------------------------------------------------------
(* Paths.  A path is its string; Parts gives what pathlib reads from it:   *)
(* the directory it lies in (.parent), its stem (.stem) and its suffix      *)
(* (.suffix) as the sequence of its characters.                             *)

pptx == <<".", "p", "p", "t", "x">>
ppt == <<".", "p", "p", "t">>
PPTX == <<".", "P", "P", "T", "X">>
PPT == <<".", "P", "P", "T">>
Pptx == <<".", "P", "p", "t", "x">>
txt == <<".", "t", "x", "t">>
NoSuffix == <<>>

\* The tree on disk: directory d holds a.pptx, a.ppt, n.txt, m.Pptx and the
\* subdirectory s, which holds b.PPTX and b.PPT.
Fa == "d/a.pptx"
Fb == "d/s/b.PPTX"
Fc == "d/a.ppt"
Fn == "d/n.txt"
Fe == "d/s/b.PPT"
Fm == "d/m.Pptx"
\* A path that names nothing on disk.
Fz == "d/z.pptx"
NoFile == ""

Parts(p) ==
  CASE p = Fa -> [parent |-> "d", stem |-> "a", suffix |-> pptx]
    [] p = Fb -> [parent |-> "d/s", stem |-> "b", suffix |-> PPTX]
    [] p = Fc -> [parent |-> "d", stem |-> "a", suffix |-> ppt]
    [] p = Fn -> [parent |-> "d", stem |-> "n", suffix |-> txt]
    [] p = Fe -> [parent |-> "d/s", stem |-> "b", suffix |-> PPT]
    [] p = Fm -> [parent |-> "d", stem |-> "m", suffix |-> Pptx]
    [] p = Fz -> [parent |-> "d", stem |-> "z", suffix |-> pptx]
    [] p = "d/s" -> [parent |-> "d", stem |-> "s", suffix |-> NoSuffix]
    [] OTHER -> [parent |-> "", stem |-> p, suffix |-> NoSuffix]

DirFiles(dir) ==
  CASE dir = "d" -> <<Fa, Fc, Fn, Fm>>
    [] dir = "d/s" -> <<Fb, Fe>>
    [] OTHER -> <<>>

SubDirs(dir) == IF dir = "d" THEN <<"d/s">> ELSE <<>>

Dirs == {"d", "d/s"}
Files == {Fa, Fb, Fc, Fn, Fe, Fm}

\* What a user can name as an input: a directory, a file with a recognized
\* suffix, a file with another suffix, a path that does not exist.
InputPaths == {"d", "d/s", Fm, Fn, Fz}

is_file(p) == p \in Files
is_dir(p) == p \in Dirs

RECURSIVE Concat(_)
Concat(ss) == IF ss = <<>> THEN <<>> ELSE Head(ss) \o Concat(Tail(ss))

\* Every file below dir, at any depth, in the order the walk lists them.
RECURSIVE Walk(_)
Walk(dir) ==
  DirFiles(dir) \o Concat([k \in 1..Len(SubDirs(dir)) |-> Walk(SubDirs(dir)[k])])

\* str.lower() on the characters a suffix is made of.
LowerChar(c) ==
  CASE c = "P" -> "p"
    [] c = "T" -> "t"
    [] c = "X" -> "x"
    [] OTHER -> c

lower(s) == [k \in 1..Len(s) |-> LowerChar(s[k])]

Recognized == {pptx, ppt}

\* A check of the suffix that lets every file through.
SuffixAny(p) == TRUE

\* input_path.suffix.lower() in ['.pptx', '.ppt']
SuffixOK(p) == lower(Parts(p).suffix) \in Recognized

\* Whether a file name matches the pattern '*<patExt>'.  pathlib matches
\* the pattern as the platform compares names: case-sensitively on POSIX,
\* case-insensitively on Windows.
GlobMatch(p, patExt, cs) ==
  IF cs THEN Parts(p).suffix = patExt
  ELSE lower(Parts(p).suffix) = lower(patExt)

\* Path(dir).rglob('*<patExt>')
rglob(dir, patExt, cs) ==
  SelectSeq(Walk(dir), LAMBDA f : GlobMatch(f, patExt, cs))

\* The four patterns of the directory expansion, in the order of the code.
Patterns == <<pptx, ppt, PPTX, PPT>>

ExpandDir(dir, cs) ==
  Concat([k \in 1..Len(Patterns) |-> rglob(dir, Patterns[k], cs)])

\* The collection loop of convert_batch and of run_conversion.
RECURSIVE Collect(_, _)
Collect(input_paths, cs) ==
  IF input_paths = <<>> THEN <<>>
  ELSE LET p == Head(input_paths)
           found == IF is_file(p) /\ SuffixOK(p) THEN <<p>>
                    ELSE IF is_dir(p) THEN ExpandDir(p, cs)
                    ELSE <<>>
       IN found \o Collect(Tail(input_paths), cs)

----------------------------------------------------------------------------
(* Construction of the converter.                                           *)

\* main: use_powerpoint = None if args.engine == 'auto'
\*                        else (args.engine == 'powerpoint')
Engines == {"auto", "powerpoint", "libreoffice"}
EnginePreference(engine) ==
  CASE engine = "auto" -> None
    [] engine = "powerpoint" -> "True"
    [] OTHER -> "False"

common_paths ==
  << "C:\\Program Files\\LibreOffice\\program\\soffice.exe",
     "C:\\Program Files (x86)\\LibreOffice\\program\\soffice.exe",
     "C:\\Program Files\\LibreOffice 7\\program\\soffice.exe",
     "C:\\Program Files\\LibreOffice 24\\program\\soffice.exe" >>

commands == <<"soffice", "libreoffice">>

\* What the version probe of a command can end in.
ProbeOutcomes == {"0", "nonzero", "timeout", "notfound"}

\* for path in common_paths: if os.path.exists(path): return path
RECURSIVE FirstExisting(_, _)
FirstExisting(paths, present) ==
  IF paths = <<>> THEN None
  ELSE IF Head(paths) \in present THEN Head(paths)
  ELSE FirstExisting(Tail(paths), present)

\* The probes with a timeout ending the search.
RECURSIVE FirstProbedUntilTimeout(_, _)
FirstProbedUntilTimeout(cmds, probe) ==
  IF cmds = <<>> THEN None
  ELSE IF probe[Head(cmds)] = "0" THEN Head(cmds)
  ELSE IF probe[Head(cmds)] = "timeout" THEN None
  ELSE FirstProbedUntilTimeout(Tail(cmds), probe)

\* for cmd in ['soffice', 'libreoffice']: the first whose probe exits 0;
\* a timeout or a missing command moves on to the next.
RECURSIVE FirstProbed(_, _)
FirstProbed(cmds, probe) ==
  IF cmds = <<>> THEN None
  ELSE IF probe[Head(cmds)] = "0" THEN Head(cmds)
  ELSE FirstProbed(Tail(cmds), probe)

\* fenv.exists: the executables present on disk; fenv.probe: how
\* `<cmd> --version` ends for each command.
FindLibreoffice(custom_path, fenv) ==
  IF custom_path # None /\ custom_path \in fenv.exists THEN custom_path
  ELSE LET common == FirstExisting(common_paths, fenv.exists)
       IN IF common # None THEN common
          ELSE FirstProbed(commands, fenv.probe)

\* The constructor with an explicit preference taken at its word.
ConverterInitAsAsked(libreoffice_path, use_powerpoint, available, ctor_raises, fenv) ==
  LET wanted == IF use_powerpoint = None THEN available
                ELSE use_powerpoint = "True"
  IN IF wanted /\ ~ctor_raises
     THEN [use_powerpoint |-> TRUE,
           powerpoint_converter |-> "PowerPointConverter",
           engine |-> "PowerPoint",
           libreoffice_path |-> Unset]
     ELSE [use_powerpoint |-> FALSE,
           powerpoint_converter |-> None,
           engine |-> "LibreOffice",
           libreoffice_path |-> FindLibreoffice(libreoffice_path, fenv)]

\* PPTXtoPDFConverter.__init__.  available is POWERPOINT_AVAILABLE and
\* ctor_raises tells whether PowerPointConverter(...) raises.
ConverterInit(libreoffice_path, use_powerpoint, available, ctor_raises, fenv) ==
  LET wanted == IF use_powerpoint = None THEN available
                ELSE (use_powerpoint = "True") /\ available
      usepp == wanted /\ ~ctor_raises
  IN IF usepp
     THEN [use_powerpoint |-> TRUE,
           powerpoint_converter |-> "PowerPointConverter",
           engine |-> "PowerPoint",
           libreoffice_path |-> Unset]
     ELSE [use_powerpoint |-> FALSE,
           powerpoint_converter |-> None,
           engine |-> "LibreOffice",
           libreoffice_path |-> FindLibreoffice(libreoffice_path, fenv)]

\* The environments the runs below are started in: no LibreOffice
\* anywhere, or `soffice` on the search path.
NoLibreOffice ==
  [exists |-> {}, probe |-> [c \in {"soffice", "libreoffice"} |-> "notfound"]]
SofficeOnPath ==
  [exists |-> {}, probe |-> [c \in {"soffice", "libreoffice"} |->
                                 IF c = "soffice" THEN "0" ELSE "notfound"]]
FindEnvs == {NoLibreOffice, SofficeOnPath}

\* The arguments and the environment of a construction.  The runs that
\* start after the construction do not keep them.
NoArgs ==
  [libreoffice_path |-> None, use_powerpoint |-> None, available |-> FALSE,
   ctor_raises |-> FALSE, fenv |-> NoLibreOffice]

----------------------------------------------------------------------------
(* convert_file.  env is what the environment answers during one call:      *)
(*   input    whether the input still exists when the call looks at it      *)
(*   mkdir    whether creating the output directory raises                  *)
(*   stat     whether reading the input's size raises                       *)
(*   dispatch whether starting the automation session raises                *)
(*   backend  how the backend invocation ends                               *)
(*   pdf      the expected output file after the invocation                 *)

PdfStates == {"absent", "empty", "full"}
ProcessOutcomes == {"exit0", "nonzero", "timeout", "exception"}
AutomationOutcomes == {"exit0", "exception"}

\* An environment in which nothing goes wrong before the invocation.
Quiet(backend, pdf) ==
  [input |-> "present", mkdir |-> FALSE, stat |-> FALSE, dispatch |-> FALSE,
   backend |-> backend, pdf |-> pdf]

\* The output file the code never looks at is left out: after a timeout or
\* an exception the call does not test it.
Envs(outcomes) ==
  {[Quiet("exit0", "full") EXCEPT !.input = "gone"],
   [Quiet("exit0", "full") EXCEPT !.mkdir = TRUE],
   [Quiet("exit0", "full") EXCEPT !.stat = TRUE],
   [Quiet("exit0", "full") EXCEPT !.dispatch = TRUE]}
  \cup {Quiet("exit0", p) : p \in PdfStates}
  \cup {Quiet(b, p) : b \in outcomes \cap {"nonzero"}, p \in {"absent", "full"}}
  \cup {Quiet(b, "absent") : b \in outcomes \cap {"timeout", "exception"}}

\* The file <output_dir>/<input_stem>.pdf the call expects.
PdfPath(f, output_dir) ==
  [dir |-> IF output_dir # None THEN output_dir ELSE Parts(f).parent,
   stem |-> Parts(f).stem]

\* One finished call: ret is the value returned, raised tells that the
\* call ended in an exception instead, invoked how many times the backend
\* was invoked, backend how the invocation ended, pdf the state of the expected
\* output file when the call ended, powerpoint the automation session.
Returned(ret, session) ==
  [ret |-> ret, raised |-> FALSE, invoked |-> 0, backend |-> "none",
   pdf |-> "unseen", powerpoint |-> session]
Raised(session) ==
  [ret |-> FALSE, raised |-> TRUE, invoked |-> 0, backend |-> "none",
   pdf |-> "unseen", powerpoint |-> session]
Invoked(ret, env, session) ==
  [ret |-> ret, raised |-> FALSE, invoked |-> 1, backend |-> env.backend,
   pdf |-> env.pdf, powerpoint |-> session]

exists(f, env) == (is_file(f) \/ is_dir(f)) /\ env.input = "present"

\* The result of the invocation with a timeout taken for a success.
ProcessOutcomeTimeoutOK(env) ==
  CASE env.backend = "exit0" -> env.pdf # "absent"
    [] env.backend = "timeout" -> TRUE
    [] OTHER -> FALSE

\* The result of the invocation with the exit status trusted: the expected
\* output file is not looked for.
ProcessOutcomeTrustsExit(env) == env.backend = "exit0"

\* What the external-process backend's invocation makes convert_file
\* return: True only for exit status 0 with the expected file present.
ProcessOutcome(env) ==
  CASE env.backend = "exit0" -> env.pdf # "absent"
    [] env.backend = "nonzero" -> FALSE
    [] env.backend = "timeout" -> FALSE
    [] OTHER -> FALSE

LibreOfficeConvertFile(self, session, f, output_dir, verbose, env) ==
  IF self.libreoffice_path = Unset THEN Raised(session)
  ELSE IF self.libreoffice_path = None THEN Returned(FALSE, session)
  ELSE IF ~exists(f, env) THEN Returned(FALSE, session)
  ELSE IF ~SuffixOK(f) THEN Returned(FALSE, session)
  ELSE IF output_dir # None /\ env.mkdir THEN Raised(session)
  ELSE IF verbose /\ env.stat THEN Raised(session)
  ELSE Invoked(ProcessOutcome(env), env, session)

\* PowerPointConverter.convert_file.
AutomationOutcome(env) ==
  CASE env.backend = "exit0" -> env.pdf # "absent"
    [] OTHER -> FALSE

PowerPointConvertFile(session, f, output_dir, verbose, env) ==
  IF ~exists(f, env) THEN Returned(FALSE, session)
  ELSE IF ~SuffixOK(f) THEN Returned(FALSE, session)
  ELSE IF output_dir # None /\ env.mkdir THEN Raised(session)
  ELSE IF verbose /\ env.stat THEN Raised(session)
  ELSE IF session = None /\ env.dispatch
       THEN [Invoked(FALSE, env, None) EXCEPT !.backend = "exception"]
       ELSE Invoked(AutomationOutcome(env), env, "PowerPoint.Application")

\* PPTXtoPDFConverter.convert_file.
convert_file(self, session, f, output_dir, verbose, env) ==
  IF self.use_powerpoint /\ self.powerpoint_converter # None
  THEN PowerPointConvertFile(session, f, output_dir, verbose, env)
  ELSE LibreOfficeConvertFile(self, session, f, output_dir, verbose, env)

\* The outcomes the selected backend can produce.
ProcessEnvs == Envs(ProcessOutcomes)
AutomationEnvs == Envs(AutomationOutcomes)
BackendEnvs(self) ==
  IF self.use_powerpoint THEN AutomationEnvs ELSE ProcessEnvs

----------------------------------------------------------------------------
(* PowerPointConverter, statement by statement, for the life of one object: *)
(* constructed, called any number of times, destroyed.  Here env also tells *)
(*   start   how _start_powerpoint ends when it has to dispatch             *)
(*   open    whether Presentations.Open raises                              *)
(*   export  whether ExportAsFixedFormat raises                             *)
(*   close   whether presentation.Close raises                              *)

MaxCalls == 3

QuietSession ==
  [input |-> "present", mkdir |-> FALSE, stat |-> FALSE, start |-> "ok",
   open |-> "ok", export |-> "ok", pdf |-> "full", close |-> "ok"]

SessionEnvs ==
  {QuietSession,
   [QuietSession EXCEPT !.input = "gone"],
   [QuietSession EXCEPT !.mkdir = TRUE],
   [QuietSession EXCEPT !.stat = TRUE],
   [QuietSession EXCEPT !.start = "dispatch_raises"],
   [QuietSession EXCEPT !.start = "visible_raises"],
   [QuietSession EXCEPT !.open = "raises"],
   [QuietSession EXCEPT !.export = "raises"],
   [QuietSession EXCEPT !.export = "raises", !.close = "raises"],
   [QuietSession EXCEPT !.pdf = "absent"],
   [QuietSession EXCEPT !.pdf = "absent", !.close = "raises"],
   [QuietSession EXCEPT !.close = "raises"]}

\* The paths convert_file is called on.
SessionFiles == {Fm, Fc, Fn, Fz, "d"}

\* _start_powerpoint with a session dispatched on every call.
StartPowerpointAlways(session, env) ==
  CASE env.start = "dispatch_raises" ->
         [powerpoint |-> session, started |-> 0, raised |-> TRUE]
    [] env.start = "visible_raises" ->
         [powerpoint |-> "PowerPoint.Application", started |-> 1,
          raised |-> TRUE]
    [] OTHER ->
         [powerpoint |-> "PowerPoint.Application", started |-> 1,
          raised |-> FALSE]

\* _start_powerpoint: dispatches only when no session is held; the
\* reference is assigned before Visible is set.
StartPowerpoint(session, env) ==
  IF session # None
  THEN [powerpoint |-> session, started |-> 0, raised |-> FALSE]
  ELSE CASE env.start = "dispatch_raises" ->
              [powerpoint |-> None, started |-> 0, raised |-> TRUE]
         [] env.start = "visible_raises" ->
              [powerpoint |-> "PowerPoint.Application", started |-> 1,
               raised |-> TRUE]
         [] OTHER ->
              [powerpoint |-> "PowerPoint.Application", started |-> 1,
               raised |-> FALSE]

\* finally: if presentation: presentation.Close() -- whether Close is
\* called.
Finally(opened, exported) == opened

\* PowerPointConverter.convert_file, statement by statement.  held is the
\* session before the call, started the sessions the call dispatched,
\* opened whether Open returned a presentation, closed whether Close was
\* called on it before the call ended.
PowerPointCall(session, f, output_dir, verbose, env) ==
  LET early == [file |-> f, env |-> env, output_dir |-> output_dir,
                verbose |-> verbose, held |-> session,
                ret |-> FALSE, raised |-> FALSE, powerpoint |-> session,
                started |-> 0, opened |-> FALSE, closed |-> FALSE]
  IN IF ~exists(f, env) THEN early
     ELSE IF ~SuffixOK(f) THEN early
     ELSE IF output_dir # None /\ env.mkdir THEN [early EXCEPT !.raised = TRUE]
     ELSE IF verbose /\ env.stat THEN [early EXCEPT !.raised = TRUE]
     ELSE LET st == StartPowerpoint(session, env)
              tried == [early EXCEPT !.powerpoint = st.powerpoint,
                                     !.started = st.started]
          IN IF st.raised THEN [tried EXCEPT !.closed = Finally(FALSE, FALSE)]
             ELSE IF env.open = "raises"
             THEN [tried EXCEPT !.closed = Finally(FALSE, FALSE)]
             ELSE IF env.export = "raises"
             THEN [tried EXCEPT !.opened = TRUE,
                                !.closed = Finally(TRUE, FALSE)]
             ELSE [tried EXCEPT !.opened = TRUE,
                                !.ret = (env.pdf # "absent"),
                                !.closed = Finally(TRUE, TRUE)]

\* _quit_powerpoint keeping the reference when Quit raises.
QuitPowerpointKeeps(session, quit_raises) ==
  IF session # None
  THEN [powerpoint |-> IF quit_raises THEN session ELSE None, quits |-> 1]
  ELSE [powerpoint |-> session, quits |-> 0]

\* _quit_powerpoint: Quit is called on a held session, what it raises is
\* dropped, and the reference is cleared.
QuitPowerpoint(session, quit_raises) ==
  IF session # None
  THEN [powerpoint |-> None, quits |-> 1]
  ELSE [powerpoint |-> session, quits |-> 0]

----------------------------------------------------------------------------
(* State.                                                                   *)

VARIABLES
  frontend,          \* "cli": main; "gui": a start handler and its worker;
                     \* "direct": one call of convert_file by a caller
  caseSensitive,     \* the platform compares file names case-sensitively
  converter,         \* the PPTXtoPDFConverter object
  powerpoint,        \* PowerPointConverter.powerpoint, the automation session
  input_paths,       \* args.inputs / the paths chosen in the dialog
  output_dir,        \* args.output / get_output_directory()
  verbose,
  pc,                \* where the run is
  files_to_convert,
  i,                 \* files of files_to_convert the loop is done with
  success_count,
  failed_count,
  last,              \* the last call of convert_file and how it ended
  summary,           \* what convert_batch returned / the worker reported
  exit_code,         \* the exit status of the process, -1 while it runs
  args,              \* what the converter under construction is given
  com,               \* the automation sessions started and quit, and the last call
  is_converting,     \* ConverterGUI.is_converting
  workers,           \* the run_conversion threads started, each with its locals
  message_queue,     \* ConverterGUI.message_queue
  produced,          \* the number of messages put so far
  applied,           \* what process_queue has applied so far
  ui                 \* the start handlers that ran, and whether one refused

vars == <<frontend, caseSensitive, converter, powerpoint, input_paths,
          output_dir, verbose, pc, files_to_convert, i, success_count,
          failed_count, last, summary, exit_code, args, com, is_converting,
          workers, message_queue, produced, applied, ui>>

MaxStarts == 2

\* No start handler has run.
NoUi == [starts |-> 0, busy |-> FALSE]

\* What is known of the messages of one worker that process_queue has
\* applied: the last progress value (the fraction n / total), whether the
\* values never went down, the logs and message boxes shown, whether a log
\* came after a message box, and the type of the last message.
NoObserved ==
  [progress |-> <<0, 1>>, monotone |-> TRUE, logs |-> 0, msgboxes |-> 0,
   log_after_msgbox |-> FALSE, last_type |-> "none"]

\* Nothing applied yet.  count is the number of messages applied and
\* in_order tells that each was the oldest not yet applied.
NoApplied ==
  [count |-> 0, in_order |-> TRUE, by |-> [w \in 1..MaxStarts |-> NoObserved]]

\* The desktop front-end's threads and queue.
gui_vars == <<is_converting, workers, message_queue, produced, applied, ui>>

\* The desktop front-end with no worker started.
GuiIdle ==
  /\ is_converting = FALSE
  /\ workers = <<>>
  /\ message_queue = <<>>
  /\ produced = 0
  /\ applied = NoApplied
  /\ ui = NoUi

\* The state of the objects the runs of Spec do not construct.
ext == <<args, com, is_converting, workers, message_queue, produced, applied,
         ui>>

NoCall == [file |-> NoFile, ret |-> FALSE, raised |-> FALSE, invoked |-> 0,
           backend |-> "none", pdf |-> "unseen"]
NoSummary == [returned |-> FALSE, total |-> 0, success |-> 0, failed |-> 0]

\* No call on the automation converter yet, no session started, none quit.
NoCom == [calls |-> 0, sessions |-> 0, quits |-> 0, quit_raised |-> FALSE]

CallRecord(f, r) ==
  [file |-> f, ret |-> r.ret, raised |-> r.raised, invoked |-> r.invoked,
   backend |-> r.backend, pdf |-> r.pdf]

RECURSIVE SeqsUpTo(_, _)
SeqsUpTo(S, n) ==
  IF n = 0 THEN {<<>>}
  ELSE LET shorter == SeqsUpTo(S, n - 1)
       IN shorter \cup {Append(q, x) : q \in shorter, x \in S}

InputLists == SeqsUpTo(InputPaths, MaxInputs)

\* What the dialogs of the three start handlers hand to the worker: one
\* or several existing files, or one folder in which files were found.
DialogChoice(paths, cs) ==
  /\ paths # <<>>
  /\ \/ \A k \in 1..Len(paths) : is_file(paths[k])
     \/ Len(paths) = 1 /\ is_dir(paths[1]) /\ ExpandDir(paths[1], cs) # <<>>

Init ==
  \E fe \in {"cli", "gui", "direct"}, engine \in Engines,
     available \in BOOLEAN, ctor_raises \in BOOLEAN, fenv \in FindEnvs,
     cs \in BOOLEAN, paths \in InputLists, od \in {None, "out"},
     vb \in BOOLEAN :
    \* the automation bridge exists on Windows only
    /\ available => ~cs
    \* the desktop front-end constructs PPTXtoPDFConverter() and calls
    \* convert_file with verbose=False
    /\ fe = "gui" => engine = "auto" /\ ~vb /\ DialogChoice(paths, cs)
    \* the command line runs are without --quiet
    /\ fe = "cli" => vb
    /\ fe = "direct" => Len(paths) = 1
    /\ frontend = fe
    /\ caseSensitive = cs
    /\ converter = ConverterInit(None, EnginePreference(engine), available,
                                 ctor_raises, fenv)
    /\ powerpoint = None
    /\ input_paths = paths
    /\ output_dir = od
    /\ verbose = vb
    /\ pc = CASE fe = "cli" -> "main" [] fe = "gui" -> "handler"
              [] OTHER -> "direct"
    /\ files_to_convert = <<>>
    /\ i = 0
    /\ success_count = 0
    /\ failed_count = 0
    /\ last = NoCall
    /\ summary = NoSummary
    /\ exit_code = -1
    /\ args = NoArgs
    /\ com = NoCom
    /\ is_converting = FALSE
    /\ workers = <<>>
    /\ message_queue = <<>>
    /\ produced = 0
    /\ applied = NoApplied
    /\ ui = NoUi

----------------------------------------------------------------------------
(* The command line front-end.                                              *)

\* The check of main left out.
EngineAssumed(self) == TRUE

\* main: whether a conversion engine is available after construction.
EngineAvailable(self) ==
  self.use_powerpoint \/ self.libreoffice_path # None

\* main, "Check if conversion engine is available".
MainCheckEngine ==
  /\ pc = "main"
  /\ IF EngineAvailable(converter)
     THEN pc' = "batch" /\ exit_code' = exit_code
     ELSE pc' = "exited" /\ exit_code' = 1
  /\ UNCHANGED ext
  /\ UNCHANGED <<frontend, caseSensitive, converter, powerpoint, input_paths,
                 output_dir, verbose, files_to_convert, i, success_count,
                 failed_count, last, summary>>

\* An exit status that ignores the summary.
ExitStatusAlwaysZero(results) == 0

\* sys.exit(0 if results['failed'] == 0 else 1)
ExitStatus(results) == IF results.failed = 0 THEN 0 ELSE 1

\* The counters of the loop after a call that ended as r.
NextSuccess(r, count) == IF r.ret THEN count + 1 ELSE count

\* A failure counted only when the backend was invoked.
NextFailedIfInvoked(r, count) ==
  IF ~r.ret /\ r.invoked > 0 THEN count + 1 ELSE count

NextFailed(r, count) == IF r.ret THEN count ELSE count + 1

\* The dictionary convert_batch returns.
Summary(files, success, failed) ==
  [returned |-> TRUE, total |-> Len(files), success |-> success,
   failed |-> failed]

\* convert_batch up to the loop: collect the files; with none found it
\* returns the empty summary and main exits.
BatchCollect ==
  /\ pc = "batch"
  /\ LET found == Collect(input_paths, caseSensitive)
     IN /\ files_to_convert' = found
        /\ IF found = <<>>
           THEN /\ summary' = Summary(<<>>, 0, 0)
                /\ exit_code' = ExitStatus(Summary(<<>>, 0, 0))
                /\ pc' = "exited"
           ELSE /\ pc' = "loop"
                /\ UNCHANGED <<summary, exit_code>>
  /\ i' = 0
  /\ success_count' = 0
  /\ failed_count' = 0
  /\ UNCHANGED ext
  /\ UNCHANGED <<frontend, caseSensitive, converter, powerpoint, input_paths,
                 output_dir, verbose, last>>

\* One iteration of the loop of convert_batch.  An exception convert_file
\* raises is caught nowhere: it leaves convert_batch and main, and the
\* interpreter exits with status 1.
BatchStep ==
  /\ pc = "loop"
  /\ i < Len(files_to_convert)
  /\ \E env \in BackendEnvs(converter) :
       LET f == files_to_convert[i + 1]
           r == convert_file(converter, powerpoint, f, output_dir, verbose, env)
       IN /\ last' = CallRecord(f, r)
          /\ powerpoint' = r.powerpoint
          /\ IF r.raised
             THEN /\ pc' = "exited"
                  /\ exit_code' = 1
                  /\ UNCHANGED <<i, success_count, failed_count>>
             ELSE /\ i' = i + 1
                  /\ success_count' = NextSuccess(r, success_count)
                  /\ failed_count' = NextFailed(r, failed_count)
                  /\ UNCHANGED <<pc, exit_code>>
  /\ UNCHANGED ext
  /\ UNCHANGED <<frontend, caseSensitive, converter, input_paths, output_dir,
                 verbose, files_to_convert, summary>>

\* The end of convert_batch and of main.
BatchReturn ==
  /\ pc = "loop"
  /\ i = Len(files_to_convert)
  /\ summary' = Summary(files_to_convert, success_count, failed_count)
  /\ exit_code' = ExitStatus(summary')
  /\ pc' = "exited"
  /\ UNCHANGED ext
  /\ UNCHANGED <<frontend, caseSensitive, converter, powerpoint, input_paths,
                 output_dir, verbose, files_to_convert, i, success_count,
                 failed_count, last>>

----------------------------------------------------------------------------
(* A caller that calls convert_file once, on any path.                      *)

DirectCall ==
  /\ pc = "direct"
  /\ \E env \in BackendEnvs(converter) :
       LET f == input_paths[1]
           r == convert_file(converter, powerpoint, f, output_dir, verbose, env)
       IN /\ last' = CallRecord(f, r)
          /\ powerpoint' = r.powerpoint
  /\ pc' = "returned"
  /\ UNCHANGED ext
  /\ UNCHANGED <<frontend, caseSensitive, converter, input_paths, output_dir,
                 verbose, files_to_convert, i, success_count, failed_count,
                 summary, exit_code>>

----------------------------------------------------------------------------
(* The desktop front-end: a start handler and the worker it starts.         *)

\* convert_single_file / convert_multiple_files / convert_folder up to
\* thread.start(): reading converter.libreoffice_path raises when the
\* attribute was never assigned, and the handler refuses when it is None.
StartHandler ==
  /\ pc = "handler"
  /\ pc' = CASE converter.libreoffice_path = Unset -> "crashed"
             [] converter.libreoffice_path = None -> "refused"
             [] OTHER -> "worker"
  /\ UNCHANGED ext
  /\ UNCHANGED <<frontend, caseSensitive, converter, powerpoint, input_paths,
                 output_dir, verbose, files_to_convert, i, success_count,
                 failed_count, last, summary, exit_code>>

\* run_conversion up to the loop.
WorkerCollect ==
  /\ pc = "worker"
  /\ LET found == Collect(input_paths, caseSensitive)
     IN /\ files_to_convert' = found
        /\ pc' = IF found = <<>> THEN "done" ELSE "worker_loop"
  /\ i' = 0
  /\ success_count' = 0
  /\ failed_count' = 0
  /\ UNCHANGED ext
  /\ UNCHANGED <<frontend, caseSensitive, converter, powerpoint, input_paths,
                 output_dir, verbose, last, summary, exit_code>>

\* One iteration of the loop of run_conversion.  file_path.stat() is
\* outside the inner try: when it raises, the outer handler ends the loop.
\* An exception of convert_file is caught by the inner handler and counted
\* as a failure (a call that raised has ret = FALSE).
WorkerStep ==
  /\ pc = "worker_loop"
  /\ i < Len(files_to_convert)
  /\ \E env \in BackendEnvs(converter) :
       LET f == files_to_convert[i + 1]
           r == convert_file(converter, powerpoint, f, output_dir, FALSE, env)
       IN IF env.stat
          THEN /\ pc' = "done"
               /\ UNCHANGED <<i, success_count, failed_count, last,
                              powerpoint>>
          ELSE /\ last' = CallRecord(f, r)
               /\ powerpoint' = r.powerpoint
               /\ i' = i + 1
               /\ success_count' = NextSuccess(r, success_count)
               /\ failed_count' = NextFailed(r, failed_count)
               /\ pc' = pc
  /\ UNCHANGED ext
  /\ UNCHANGED <<frontend, caseSensitive, converter, input_paths, output_dir,
                 verbose, files_to_convert, summary, exit_code>>

\* The final summary of run_conversion.
WorkerSummary ==
  /\ pc = "worker_loop"
  /\ i = Len(files_to_convert)
  /\ summary' = Summary(files_to_convert, success_count, failed_count)
  /\ pc' = "done"
  /\ UNCHANGED ext
  /\ UNCHANGED <<frontend, caseSensitive, converter, powerpoint, input_paths,
                 output_dir, verbose, files_to_convert, i, success_count,
                 failed_count, last, exit_code>>

----------------------------------------------------------------------------

Next ==
  \/ MainCheckEngine
  \/ BatchCollect
  \/ BatchStep
  \/ BatchReturn
  \/ DirectCall
  \/ StartHandler
  \/ WorkerCollect
  \/ WorkerStep
  \/ WorkerSummary

Spec == Init /\ [][Next]_vars

----------------------------------------------------------------------------
(* Properties.                                                              *)

\* The suffixes of the tree that spell .pptx or .ppt in some casing.
HasRecognizedSuffix(p) == Parts(p).suffix \in {pptx, ppt, PPTX, PPT, Pptx}

\* The run went past the engine check of main and called convert_batch.
ReachedBatch ==
  /\ frontend = "cli"
  /\ pc # "main"
  /\ converter.use_powerpoint \/ converter.libreoffice_path # None

\* C1: the summary convert_batch returns, and the one the worker of the
\* desktop front-end reports when its loop has ended, satisfy
\* total = success + failed, where total is the number of files discovered;
\* while a loop runs, success + failed is the number of files it is done with.
SummaryCountsAddUp ==
  /\ summary.returned =>
       /\ summary.total = summary.success + summary.failed
       /\ summary.total = Len(files_to_convert)
  /\ pc \in {"loop", "worker_loop"} => success_count + failed_count = i

\* C1 witness: three files of which one failed: {total: 3, success: 2,
\* failed: 1}.
ThreeFilesOneFailed ==
  /\ frontend = "cli"
  /\ pc = "exited"
  /\ summary = [returned |-> TRUE, total |-> 3, success |-> 2, failed |-> 1]

\* C2: no failure on one file aborts the batch: once files were discovered,
\* convert_batch ends only by returning the summary, after every discovered
\* file was passed to convert_file.
BatchNeverAborts ==
  (frontend = "cli" /\ pc = "exited" /\ files_to_convert # <<>>) =>
    (summary.returned /\ i = Len(files_to_convert))

\* C3: a call whose backend invocation exceeded the timeout returns
\* failure, has invoked the backend once, adds one to the failed count and
\* leaves convert_batch in its loop, at the next file.
TimeoutIsFailureAndBatchGoesOn ==
  [][ /\ last'.backend = "timeout" =>
           (~last'.ret /\ ~last'.raised /\ last'.invoked = 1)
      /\ (pc = "loop" /\ i < Len(files_to_convert)
            /\ last'.backend = "timeout") =>
           /\ failed_count' = failed_count + 1
           /\ success_count' = success_count
           /\ i' = i + 1
           /\ pc' = "loop" ]_vars

\* C3 witness: a file of a batch timed out and files remain.
TimedOutInBatch ==
  /\ pc = "loop"
  /\ last.backend = "timeout"
  /\ failed_count > 0
  /\ i < Len(files_to_convert)

\* C4: with no backend available the command line run ends with a nonzero
\* exit status before convert_batch: nothing is discovered, convert_file is
\* never called and no summary is returned.
NoBackendExitsBeforeBatch ==
  (/\ frontend = "cli"
   /\ ~converter.use_powerpoint
   /\ converter.libreoffice_path = None
   /\ pc # "main") =>
    /\ pc = "exited"
    /\ exit_code > 0
    /\ files_to_convert = <<>>
    /\ last = NoCall
    /\ ~summary.returned

\* C4 witness: a run over a directory with presentations ended for lack of
\* a backend.
ExitedForLackOfBackend ==
  /\ frontend = "cli"
  /\ pc = "exited"
  /\ ~converter.use_powerpoint
  /\ converter.libreoffice_path = None
  /\ input_paths = <<"d">>

\* C5: a run that reached convert_batch exits with status 0 exactly when
\* the summary was returned with a failed count of 0.
ExitStatusZeroIffNoneFailed ==
  (ReachedBatch /\ pc = "exited") =>
    /\ exit_code \in {0, 1}
    /\ exit_code = 0 <=> (summary.returned /\ summary.failed = 0)

\* C5 witness: a batch with a success and a failure exited with status 1.
ExitedNonzeroAfterFailure ==
  /\ ReachedBatch
  /\ pc = "exited"
  /\ summary.returned
  /\ summary.success > 0
  /\ summary.failed > 0
  /\ exit_code = 1

\* C6: an input that names no existing file or directory is counted as a
\* failure, and the exit status is nonzero.
MissingInputIsFailure ==
  (/\ ReachedBatch
   /\ pc = "exited"
   /\ \E k \in 1..Len(input_paths) :
        ~is_file(input_paths[k]) /\ ~is_dir(input_paths[k])) =>
    /\ summary.returned => summary.failed > 0
    /\ exit_code # 0

\* C7: a file whose suffix is not .pptx or .ppt in any casing is never among
\* the discovered files, and a call of convert_file on it returns False
\* without invoking a backend or starting an automation session.
UnrecognizedNeverConverted ==
  /\ \A k \in 1..Len(files_to_convert) :
       HasRecognizedSuffix(files_to_convert[k])
  /\ (last.file # NoFile /\ ~HasRecognizedSuffix(last.file)) =>
       (last.invoked = 0 /\ ~last.ret /\ ~last.raised)
  /\ (pc = "returned" /\ ~HasRecognizedSuffix(input_paths[1])) =>
       powerpoint = None

\* C7 witness: convert_file of the automation backend was called on n.txt.
CalledOnTextFile ==
  /\ pc = "returned"
  /\ converter.use_powerpoint
  /\ last.file = Fn

\* C8: expanding directory d yields a.pptx, a.ppt, b.PPTX and b.PPT, each
\* once, and neither n.txt nor m.Pptx; m.Pptx given as an input itself is
\* accepted.
DirectoryExpansionExact ==
  /\ (pc \in {"loop", "worker_loop"} /\ input_paths = <<"d">>) =>
       /\ Len(files_to_convert) = 4
       /\ {files_to_convert[k] : k \in 1..Len(files_to_convert)}
            = {Fa, Fb, Fc, Fe}
  /\ (pc \in {"loop", "worker_loop"} /\ input_paths = <<Fm>>) =>
       files_to_convert = <<Fm>>

\* C9: a call whose backend reported success but whose expected output file
\* is absent returns failure, and so does a call whose backend exited with a
\* nonzero status, whether or not the file exists.
MissingOutputIsFailure ==
  /\ (last.backend = "exit0" /\ last.pdf = "absent") => ~last.ret
  /\ last.backend = "nonzero" => ~last.ret

\* C9 witness: the backend reported success and the output file is absent.
SuccessReportedOutputAbsent ==
  /\ last.invoked = 1
  /\ last.backend = "exit0"
  /\ last.pdf = "absent"
  /\ ~last.ret

\* C10: whenever convert_file returns success the expected output file
\* exists and is non-empty.
SuccessMeansNonEmptyOutput ==
  last.ret => last.pdf = "full"


----------------------------------------------------------------------------
(* Backend invocations that do not return by themselves.                    *)

\* subprocess.run(cmd, ..., timeout=600)
ConversionTimeout == 600

\* The timeouts convert_file sets on its backend: subprocess.run is given
\* one; Presentations.Open and ExportAsFixedFormat are plain calls on the
\* COM object, which return when PowerPoint answers.
WaitBound(self) ==
  IF self.use_powerpoint /\ self.powerpoint_converter # None
  THEN <<>>
  ELSE <<ConversionTimeout>>

\* The backend is invoked and gives no answer of its own.
HangEnv == Quiet("hang", "absent")

\* One turn of the loop of convert_batch in which the backend never
\* answers.  With a wait bound the wait ends in TimeoutExpired, which
\* convert_file turns into False; without one the call stays in the backend.
BatchStepHanging ==
  /\ pc = "loop"
  /\ i < Len(files_to_convert)
  /\ LET f == files_to_convert[i + 1]
         hung == convert_file(converter, powerpoint, f, output_dir, verbose,
                              HangEnv)
         r == convert_file(converter, powerpoint, f, output_dir, verbose,
                           Quiet("timeout", "absent"))
     IN /\ hung.invoked = 1
        /\ IF WaitBound(converter) = <<>>
           THEN /\ pc' = "blocked"
                /\ last' = CallRecord(f, hung)
                /\ powerpoint' = hung.powerpoint
                /\ UNCHANGED <<i, success_count, failed_count>>
           ELSE /\ last' = CallRecord(f, r)
                /\ powerpoint' = r.powerpoint
                /\ i' = i + 1
                /\ success_count' = NextSuccess(r, success_count)
                /\ failed_count' = NextFailed(r, failed_count)
                /\ UNCHANGED pc
  /\ UNCHANGED ext
  /\ UNCHANGED <<frontend, caseSensitive, converter, input_paths, output_dir,
                 verbose, files_to_convert, summary, exit_code>>

\* The command line runs, with backends that may never answer.
InitHang == Init /\ frontend = "cli"

NextHang ==
  \/ MainCheckEngine
  \/ BatchCollect
  \/ BatchStep
  \/ BatchStepHanging
  \/ BatchReturn

SpecHang == InitHang /\ [][NextHang]_vars

\* C11: every backend invocation is bounded by the per-file timeout,
\* whichever backend is selected, so that a batch over a finite list always
\* terminates: a run that has not exited can always take a further step,
\* also after a backend call that gives no answer.
BatchAlwaysTerminates == pc = "exited" \/ ENABLED NextHang


----------------------------------------------------------------------------
(* The output files of a batch.                                             *)

\* The files of the discovered list, each once.
Discovered == {files_to_convert[k] : k \in 1..Len(files_to_convert)}

\* The expected output files of the discovered list.
OutputPaths == {PdfPath(f, output_dir) : f \in Discovered}

\* C12: two distinct discovered inputs never resolve to the same output
\* path <output_dir>/<stem>.pdf, so that a batch of distinct files that all
\* succeeded has written as many distinct PDFs as it counts successes.
OnePdfPerInput ==
  /\ \A f, g \in Discovered :
       f # g => PdfPath(f, output_dir) # PdfPath(g, output_dir)
  /\ (/\ summary.returned
      /\ summary.failed = 0
      /\ Cardinality(Discovered) = Len(files_to_convert))
     => Cardinality(OutputPaths) = summary.success


----------------------------------------------------------------------------
(* The construction of the converter by the two front-ends, and what each   *)
(* does first with the new object.                                          *)

\* --libreoffice: not given, or the path of an executable.
CustomPaths == {None, "/opt/libreoffice/program/soffice"}

Executables ==
  (CustomPaths \ {None}) \cup {common_paths[k] : k \in 1..Len(common_paths)}

\* Every state of the disk and of the search path.
AllFindEnvs ==
  [exists : SUBSET Executables,
   probe : [{commands[k] : k \in 1..Len(commands)} -> ProbeOutcomes]]

\* The converter object before __init__ has run.
NotConstructed ==
  [use_powerpoint |-> FALSE, powerpoint_converter |-> Unset,
   engine |-> Unset, libreoffice_path |-> Unset]

\* main passes args.libreoffice and the engine preference; the desktop
\* front-end calls PPTXtoPDFConverter().
InitNew ==
  \E fe \in {"cli", "gui"}, custom \in CustomPaths, engine \in Engines,
     available \in BOOLEAN, ctor_raises \in BOOLEAN, fenv \in AllFindEnvs :
    /\ fe = "gui" => custom = None /\ engine = "auto"
    /\ frontend = fe
    /\ args = [libreoffice_path |-> custom,
               use_powerpoint |-> EnginePreference(engine),
               available |-> available, ctor_raises |-> ctor_raises,
               fenv |-> fenv]
    /\ converter = NotConstructed
    /\ pc = "new"
    /\ caseSensitive = ~available
    /\ powerpoint = None
    /\ input_paths = <<>>
    /\ output_dir = None
    /\ verbose = (fe = "cli")
    /\ files_to_convert = <<>>
    /\ i = 0
    /\ success_count = 0
    /\ failed_count = 0
    /\ last = NoCall
    /\ summary = NoSummary
    /\ exit_code = -1
    /\ com = NoCom
    /\ GuiIdle

\* PPTXtoPDFConverter(...)
Construct ==
  /\ pc = "new"
  /\ converter' = ConverterInit(args.libreoffice_path, args.use_powerpoint,
                                args.available, args.ctor_raises, args.fenv)
  /\ pc' = IF frontend = "cli" THEN "main" ELSE "startup"
  /\ UNCHANGED <<frontend, caseSensitive, powerpoint, input_paths, output_dir,
                 verbose, files_to_convert, i, success_count, failed_count,
                 last, summary, exit_code, args, com>>
  /\ UNCHANGED gui_vars

\* ConverterGUI.__init__: check_libreoffice reads converter.libreoffice_path;
\* an attribute that was never assigned raises AttributeError, which leaves
\* __init__ and main.
CheckLibreoffice ==
  /\ pc = "startup"
  /\ pc' = IF converter.libreoffice_path = Unset THEN "crashed" ELSE "handler"
  /\ UNCHANGED <<frontend, caseSensitive, converter, powerpoint, input_paths,
                 output_dir, verbose, files_to_convert, i, success_count,
                 failed_count, last, summary, exit_code, args, com>>
  /\ UNCHANGED gui_vars

NextNew ==
  \/ Construct
  \/ MainCheckEngine
  \/ CheckLibreoffice

SpecNew == InitNew /\ [][NextNew]_vars

\* C13: _find_libreoffice returns the explicit path when it is given and
\* exists; otherwise the first existing entry of the known install
\* locations, in list order; otherwise the first of soffice, libreoffice
\* whose version probe exits 0, a probe that times out or finds no command
\* moving on; otherwise None.  An explicit path that does not exist is passed
\* over.
FindOrder ==
  (pc # "new" /\ ~converter.use_powerpoint) =>
    LET custom == args.libreoffice_path
        present == args.fenv.exists
        probe == args.fenv.probe
        found == converter.libreoffice_path
        n == Len(common_paths)
    IN IF custom # None /\ custom \in present THEN found = custom
       ELSE IF \E k \in 1..n : common_paths[k] \in present
       THEN \E k \in 1..n : /\ found = common_paths[k]
                            /\ found \in present
                            /\ \A j \in 1..(k - 1) : common_paths[j] \notin present
       ELSE IF probe["soffice"] = "0" THEN found = "soffice"
       ELSE IF probe["libreoffice"] = "0" THEN found = "libreoffice"
       ELSE found = None

\* C13 witness: the explicit path does not exist, no known location does,
\* the probe of soffice times out and libreoffice answers.
FoundSecondCommand ==
  /\ pc # "new"
  /\ args.libreoffice_path # None
  /\ args.fenv.exists = {}
  /\ args.fenv.probe["soffice"] = "timeout"
  /\ converter.libreoffice_path = "libreoffice"

\* C14: with no preference the automation backend is selected exactly when
\* it is available; an explicit preference for it that finds it unavailable,
\* or a constructor of the automation converter that raises, selects the
\* external-process backend; an explicit preference for the external process
\* never selects the automation backend; and engine is 'PowerPoint' exactly
\* when use_powerpoint is true and powerpoint_converter is set.
BackendSelection ==
  pc # "new" =>
    LET external == /\ ~converter.use_powerpoint
                    /\ converter.engine = "LibreOffice"
                    /\ converter.powerpoint_converter = None
    IN /\ (args.use_powerpoint = None /\ ~args.ctor_raises)
            => (converter.use_powerpoint <=> args.available)
       /\ (args.use_powerpoint = "True" /\ ~args.available) => external
       /\ args.ctor_raises => external
       /\ args.use_powerpoint = "False" => external
       /\ converter.engine = "PowerPoint"
            <=> (converter.use_powerpoint
                 /\ converter.powerpoint_converter # None)

\* C14 witness: the automation backend was asked for and is not available.
PreferredBackendUnavailable ==
  /\ pc # "new"
  /\ args.use_powerpoint = "True"
  /\ ~args.available
  /\ converter.engine = "LibreOffice"


----------------------------------------------------------------------------
(* The life of one PowerPointConverter.                                     *)

\* PowerPointConverter(quality) on a machine with the automation bridge.
InitSession ==
  /\ frontend = "direct"
  /\ caseSensitive = FALSE
  /\ converter = ConverterInit(None, "True", TRUE, FALSE, NoLibreOffice)
  /\ powerpoint = None
  /\ pc = "alive"
  /\ com = NoCom
  /\ last = NoCall
  /\ input_paths = <<>>
  /\ output_dir = None
  /\ verbose = FALSE
  /\ files_to_convert = <<>>
  /\ i = 0
  /\ success_count = 0
  /\ failed_count = 0
  /\ summary = NoSummary
  /\ exit_code = -1
  /\ args = NoArgs
  /\ GuiIdle

\* One call of convert_file on the converter.
SessionCall ==
  /\ pc = "alive"
  /\ com.calls < MaxCalls
  /\ \E f \in SessionFiles, od \in {None, "out"}, vb \in BOOLEAN,
        env \in SessionEnvs :
       LET r == PowerPointCall(powerpoint, f, od, vb, env)
       IN /\ last' = r
          /\ powerpoint' = r.powerpoint
          /\ com' = [com EXCEPT !.calls = @ + 1, !.sessions = @ + r.started]
  /\ UNCHANGED <<frontend, caseSensitive, converter, input_paths, output_dir,
                 verbose, pc, files_to_convert, i, success_count,
                 failed_count, summary, exit_code, args>>
  /\ UNCHANGED gui_vars

\* __del__
Destroy ==
  /\ pc = "alive"
  /\ \E quit_raises \in BOOLEAN :
       LET q == QuitPowerpoint(powerpoint, quit_raises)
       IN /\ powerpoint' = q.powerpoint
          /\ com' = [com EXCEPT !.quits = @ + q.quits,
                                !.quit_raised = (q.quits = 1 /\ quit_raises)]
  /\ pc' = "destroyed"
  /\ UNCHANGED <<frontend, caseSensitive, converter, input_paths, output_dir,
                 verbose, files_to_convert, i, success_count, failed_count,
                 last, summary, exit_code, args>>
  /\ UNCHANGED gui_vars

NextSession ==
  \/ SessionCall
  \/ Destroy

SpecSession == InitSession /\ [][NextSession]_vars


\* The last call got past the existence and the extension check.
PassedChecks == exists(last.file, last.env) /\ SuffixOK(last.file)

\* The last call got as far as _start_powerpoint.
ReachedStart ==
  /\ PassedChecks
  /\ ~(last.output_dir # None /\ last.env.mkdir)
  /\ ~(last.verbose /\ last.env.stat)

\* C15 as stated: the construction starts no session, a call rejected by
\* the existence or extension check starts none, the first call that passes
\* those checks starts one, and over any sequence of calls on one converter
\* at most one session is ever started.
SessionLazyAndReused ==
  /\ com.calls = 0 => (com.sessions = 0 /\ powerpoint = None)
  /\ com.sessions <= 1
  /\ com.calls >= 1 =>
       /\ ~PassedChecks => last.started = 0
       /\ (PassedChecks /\ last.held = None) => last.started = 1

\* C15 amended: a call that passes the two checks starts a session only
\* when none is held, the output directory was created and the input's size
\* read without an exception, and the dispatch itself did not raise; a held
\* session is kept as it is; the rest as stated.
SessionStartedOnDemand ==
  /\ com.calls = 0 => (com.sessions = 0 /\ powerpoint = None)
  /\ com.sessions <= 1
  /\ com.calls >= 1 =>
       /\ ~PassedChecks => last.started = 0
       /\ last.started = 1 <=> (/\ ReachedStart
                                /\ last.held = None
                                /\ last.env.start # "dispatch_raises")
       /\ last.held # None => last.powerpoint = last.held

\* C15 witness: a later call found the session of an earlier one and
\* opened its presentation in it.
SessionReused ==
  /\ com.calls >= 2
  /\ com.sessions = 1
  /\ last.held # None
  /\ last.opened


\* C16: a presentation opened by convert_file has had Close called on it
\* when the call ends, whether the export succeeded, the output is missing
\* or an exception was raised; and once the converter is destroyed every
\* session that was started has had Quit called on it and the reference is
\* cleared, also when Quit raised.
ResourcesReleased ==
  /\ com.calls >= 1 => (last.opened <=> last.closed)
  /\ pc = "destroyed" => (powerpoint = None /\ com.quits = com.sessions)

\* C16 witness: the last call opened a presentation and failed in the
\* export, and Quit raised when the converter was destroyed.
ReleasedAfterFailures ==
  /\ pc = "destroyed"
  /\ com.sessions = 1
  /\ com.quit_raised
  /\ last.opened
  /\ last.env.export = "raises"
  /\ last.closed
  /\ powerpoint = None

----------------------------------------------------------------------------
(* The desktop front-end: the start handlers and process_queue on the       *)
(* thread of the event loop, and the run_conversion threads they start.     *)

\* The messages a worker may put while this many wait in the queue:
\* process_queue runs every 100 ms.
MaxQueued == 4

\* What the dialogs of the three handlers return: one file of any type,
\* several files, or a folder in which files were found.
GuiChoices == {<<Fm>>, <<Fn>>, <<Fm, Fc>>, <<"d/s">>}

\* The messages of the queue.  seq is the position of the message among
\* all messages put.  A progress value (n / total * 100) is kept as the
\* fraction n / total: the float operations are monotone in n, and n / total
\* is exactly 1.0 for n = total.
Log(w, text) ==
  [w |-> w, type |-> "log", text |-> text, num |-> 0, den |-> 1, seq |-> 0]
Progress(w, n, total) ==
  [w |-> w, type |-> "progress", text |-> "", num |-> n, den |-> total,
   seq |-> 0]
Msgbox(w, box_type) ==
  [w |-> w, type |-> "msgbox", text |-> box_type, num |-> 0, den |-> 1,
   seq |-> 0]

\* A thread that was started and has not run its first statement.
NewWorker(paths) ==
  [pc |-> "started", paths |-> paths, files |-> <<>>, n |-> 0,
   success |-> 0, failed |-> 0]

\* process_queue applying the newest message first.
DrainNewestFirst(q) == [k \in 1..Len(q) |-> q[Len(q) + 1 - k]]

\* while True: get_nowait() -- the messages in the order the queue hands
\* them out, until it is empty.
Drain(q) == q

\* The body of the loop of process_queue for one message.
Apply(seen, m) ==
  LET old == seen.by[m.w]
      new ==
        CASE m.type = "progress" ->
               [old EXCEPT
                  !.progress = <<m.num, m.den>>,
                  !.monotone = @ /\ (old.progress[1] * m.den
                                       <= m.num * old.progress[2]),
                  !.last_type = "progress"]
          [] m.type = "msgbox" ->
               [old EXCEPT !.msgboxes = @ + 1, !.last_type = "msgbox"]
          [] OTHER ->
               [old EXCEPT !.logs = @ + 1,
                           !.log_after_msgbox = @ \/ old.msgboxes > 0,
                           !.last_type = "log"]
  IN [count |-> seen.count + 1,
      in_order |-> seen.in_order /\ m.seq = seen.count + 1,
      by |-> [seen.by EXCEPT ![m.w] = new]]

RECURSIVE ApplyAll(_, _)
ApplyAll(seen, msgs) ==
  IF msgs = <<>> THEN seen
  ELSE ApplyAll(Apply(seen, Head(msgs)), Tail(msgs))

\* ConverterGUI(root) with LibreOffice found; get_output_directory() is
\* read by each worker.
InitGui ==
  \E cs \in BOOLEAN, od \in {None, "out"} :
    /\ frontend = "gui"
    /\ caseSensitive = cs
    /\ converter = ConverterInit(None, None, FALSE, FALSE, SofficeOnPath)
    /\ powerpoint = None
    /\ input_paths = <<>>
    /\ output_dir = od
    /\ verbose = FALSE
    /\ pc = "mainloop"
    /\ files_to_convert = <<>>
    /\ i = 0
    /\ success_count = 0
    /\ failed_count = 0
    /\ last = NoCall
    /\ summary = NoSummary
    /\ exit_code = -1
    /\ args = NoArgs
    /\ com = NoCom
    /\ GuiIdle

\* convert_single_file, convert_multiple_files, convert_folder: refuse
\* while is_converting is set, else ask for the input and start a thread.
\* The handler does not touch is_converting.
StartConversion ==
  /\ ui.starts < MaxStarts
  /\ converter.libreoffice_path \notin {None, Unset}
  /\ IF is_converting
     THEN /\ ui' = [ui EXCEPT !.busy = TRUE]
          /\ UNCHANGED workers
     ELSE \E paths \in GuiChoices :
            /\ workers' = Append(workers, NewWorker(paths))
            /\ ui' = [ui EXCEPT !.starts = @ + 1]
  /\ UNCHANGED <<is_converting, message_queue, produced, applied>>

\* self.message_queue.put, for each message of msgs in turn.
Put(msgs) ==
  /\ Len(message_queue) <= MaxQueued
  /\ message_queue' =
       message_queue \o [k \in 1..Len(msgs) |->
                           [msgs[k] EXCEPT !.seq = produced + k]]
  /\ produced' = produced + Len(msgs)

\* run_conversion up to the loop: sets is_converting and collects the files.
WorkerBegin(w) ==
  /\ workers[w].pc = "started"
  /\ is_converting' = TRUE
  /\ LET found == Collect(workers[w].paths, caseSensitive)
     IN IF found = <<>>
        THEN /\ Put(<<Log(w, "No PPTX files to convert.")>>)
             /\ workers' = [workers EXCEPT ![w].pc = "finally"]
        ELSE /\ Put(<<Log(w, "Starting conversion")>>)
             /\ workers' = [workers EXCEPT ![w].pc = "loop",
                                           ![w].files = found]
  /\ UNCHANGED <<applied, ui>>

\* One turn of the loop of run_conversion.  file_path.stat() is outside
\* the inner try: what it raises ends the loop in the outer handler.
WorkerTurn(w) ==
  /\ workers[w].pc = "loop"
  /\ workers[w].n < Len(workers[w].files)
  /\ \E env \in BackendEnvs(converter) :
       LET me == workers[w]
           total == Len(me.files)
           f == me.files[me.n + 1]
           r == convert_file(converter, None, f, output_dir, FALSE, env)
           result == IF r.raised THEN "Error"
                     ELSE IF r.ret THEN "Success" ELSE "Failed"
       IN IF env.stat
          THEN /\ Put(<<Progress(w, me.n, total),
                        Log(w, "Error during conversion"),
                        Msgbox(w, "error")>>)
               /\ workers' = [workers EXCEPT ![w].pc = "finally"]
          ELSE /\ Put(<<Progress(w, me.n, total), Log(w, "Converting"),
                        Log(w, result), Progress(w, me.n + 1, total)>>)
               /\ workers' = [workers EXCEPT
                    ![w].n = @ + 1,
                    ![w].success = NextSuccess(r, @),
                    ![w].failed = NextFailed(r, @)]
  /\ UNCHANGED <<is_converting, applied, ui>>

\* The final summary and the completion message.
WorkerEnd(w) ==
  /\ workers[w].pc = "loop"
  /\ workers[w].n = Len(workers[w].files)
  /\ Put(<<Log(w, "separator"), Log(w, "Conversion Summary:"),
           Log(w, "Total files"), Log(w, "Successful")>>
         \o (IF workers[w].failed > 0 THEN <<Log(w, "Failed")>> ELSE <<>>)
         \o <<Log(w, "Conversion complete!"),
              Msgbox(w, IF workers[w].failed = 0 THEN "success"
                        ELSE "warning")>>)
  /\ workers' = [workers EXCEPT ![w].pc = "finally"]
  /\ UNCHANGED <<is_converting, applied, ui>>

\* finally: self.is_converting = False
WorkerFinally(w) ==
  /\ workers[w].pc = "finally"
  /\ is_converting' = FALSE
  /\ workers' = [workers EXCEPT ![w].pc = "done"]
  /\ UNCHANGED <<message_queue, produced, applied, ui>>

\* process_queue: applies what the queue holds, then reschedules itself.
ProcessQueue ==
  /\ message_queue # <<>>
  /\ applied' = ApplyAll(applied, Drain(message_queue))
  /\ message_queue' = <<>>
  /\ UNCHANGED <<is_converting, workers, produced, ui>>

GuiRest ==
  <<frontend, caseSensitive, converter, powerpoint, input_paths, output_dir,
    verbose, pc, files_to_convert, i, success_count, failed_count, last,
    summary, exit_code, args, com>>

NextGui ==
  \/ StartConversion /\ UNCHANGED GuiRest
  \/ \E w \in DOMAIN workers : WorkerBegin(w) /\ UNCHANGED GuiRest
  \/ \E w \in DOMAIN workers : WorkerTurn(w) /\ UNCHANGED GuiRest
  \/ \E w \in DOMAIN workers : WorkerEnd(w) /\ UNCHANGED GuiRest
  \/ \E w \in DOMAIN workers : WorkerFinally(w) /\ UNCHANGED GuiRest
  \/ ProcessQueue /\ UNCHANGED GuiRest

SpecGui == InitGui /\ [][NextGui]_vars

\* The run_conversion threads that were started and have not ended.
ActiveWorkers == {w \in DOMAIN workers : workers[w].pc # "done"}

\* C17: under every interleaving of the start handlers with the worker
\* threads, at most one run_conversion worker is active at any time.
AtMostOneWorker == Cardinality(ActiveWorkers) <= 1


\* Worker w has ended and process_queue has applied all it put.
Reported(w) ==
  /\ workers[w].pc \in {"finally", "done"}
  /\ \A k \in 1..Len(message_queue) : message_queue[k].w # w

\* C18: process_queue applies every message put exactly once and in the
\* order of the puts; within one batch the progress values applied never
\* decrease, and the value is 100 once the last file is done; and a batch
\* with at least one file shows exactly one message box, after its last log
\* message.
QueueAppliedInOrder ==
  /\ applied.in_order
  /\ applied.count + Len(message_queue) = produced
  /\ \A k \in 1..Len(message_queue) : message_queue[k].seq = applied.count + k
  /\ \A w \in DOMAIN workers :
       LET me == workers[w]
           seen == applied.by[w]
       IN /\ seen.monotone
          /\ seen.msgboxes <= 1
          /\ ~seen.log_after_msgbox
          /\ (Reported(w) /\ me.files # <<>> /\ me.n = Len(me.files))
               => seen.progress[1] = seen.progress[2]
          /\ (Reported(w) /\ me.files # <<>>)
               => (/\ seen.msgboxes = 1
                   /\ seen.logs >= 1
                   /\ seen.last_type = "msgbox")

\* C18 witness: a batch of two files, one of which failed, has ended and
\* all its messages are applied.
BatchReported ==
  \E w \in DOMAIN workers :
    /\ workers[w].pc = "done"
    /\ workers[w].n = 2
    /\ workers[w].failed = 1
    /\ message_queue = <<>>
    /\ applied.by[w].progress = <<2, 2>>
    /\ applied.by[w].msgboxes = 1


----------------------------------------------------------------------------
(* Further properties of the batch and of the constructed converter.        *)

\* C19: for every list of inputs, also a directory together with a file in
\* it, a directory with one of its subdirectories, or the same path twice,
\* the discovered list holds each file at most once, so that no file is
\* converted more than once in a batch.
NoFileTwice == Cardinality(Discovered) = Len(files_to_convert)

\* C20: once the converter is constructed, whichever backend was selected,
\* use_powerpoint, engine, powerpoint_converter and libreoffice_path are all
\* defined, so that the desktop front-end's read of libreoffice_path at
\* startup does not fail.
AttributesDefined ==
  pc # "new" =>
    /\ converter.engine # Unset
    /\ converter.powerpoint_converter # Unset
    /\ converter.libreoffice_path # Unset
    /\ pc # "crashed"

============================================================================
